---- MODULE Spec2Model ----
(***************************************************************************)
(* Open Interface: the action dispatcher (app/interpreter.py and           *)
(* langgraph_interface/nodes.py::_execute_step over tools.py) and the      *)
(* control loop (langgraph_interface/nodes.py wired by graph.py), driven   *)
(* either by OpenInterfaceGraph.execute_request or by the Tk front end of  *)
(* simple_ui.py through OpenInterfaceGraph.stream_execution.               *)
(*                                                                         *)
(* Python values are modelled as follows.  None is the record NoneVal.     *)
(* A dict is a TLA+ record/function whose DOMAIN is the set of keys that   *)
(* are present.  A parameter value is tagged with its Python type:         *)
(* [int |-> n], [str |-> s] or [list |-> <<...>>].  A Python str that the  *)
(* code only builds and searches (tool results) is the sequence of its     *)
(* words.                                                                  *)
(***************************************************************************)
EXTENDS Integers, Sequences, FiniteSets, TLC

VARIABLES
    state,          \* [Runs -> OpenInterfaceState]   the LangGraph channels of each run
    node,           \* [Runs -> node name]            the node the graph runs next
    exec_i,         \* [Runs -> Nat]  execution_node: steps of the plan already iterated
    exec_results,   \* [Runs -> Seq]  execution_node: the local list execution_results
    planner_calls,  \* [Runs -> Seq]  outcome of every get_instructions_for_objective call
    dispatched,     \* [Runs -> Seq]  every _execute_step call: <<round, index in plan>>
    calls,          \* [Runs -> Seq]  every primitive (pyautogui / time.sleep / Screen) call
    outcome,        \* [Runs -> dict or NoneVal]  what execute_request returned / the last chunk
    is_running,     \* SimpleOpenInterfaceUI.is_running
    thread,         \* [Runs -> position of the thread running _run_execution]
    since_stop,     \* [Runs -> steps dispatched since Stop was pressed on the run, -1: not pressed]
    json_commands,  \* Interpreter.process_commands: its argument
    cmd_i,          \* process_commands: commands of the list already processed
    status_queue,   \* Interpreter.status_queue: what was put, in order
    interp_calls,   \* every primitive call made by Interpreter.execute_function
    interp_trace,   \* process_commands: the puts and primitive calls of each command, in order
    returned,       \* what process_commands returned (or raised), NoneVal while it runs
    screen          \* the environment: "ok" when the screen can be captured, else "broken"

vars == <<state, node, exec_i, exec_results, planner_calls, dispatched, calls,
          outcome, is_running, thread, since_stop,
          json_commands, cmd_i, status_queue, interp_calls, interp_trace, returned,
          screen>>

loopVars == <<state, node, exec_i, exec_results, planner_calls, dispatched, calls, outcome>>
uiVars == <<is_running, thread, since_stop>>
interpVars == <<json_commands, cmd_i, status_queue, interp_calls, interp_trace, returned>>

(***************************************************************************)
(* Bounds                                                                  *)
(***************************************************************************)
MaxStepsBound == 3      \* max_steps of execute_request ranges over 1..MaxStepsBound

Runs == {1, 2}

(***************************************************************************)
(* Python values                                                           *)
(***************************************************************************)
NoneVal == [none |-> TRUE]

IntV(n) == [int |-> n]
StrV(s) == [str |-> s]
ListV(l) == [list |-> l]

EmptyDict == << >>

\* dict.get(key, default)
Get(d, key, default) == IF key \in DOMAIN d THEN d[key] ELSE default

\* Python truthiness of the values the code tests
Truthy(v) ==
    IF v = NoneVal THEN FALSE
    ELSE IF "int" \in DOMAIN v THEN v.int # 0
    ELSE IF "str" \in DOMAIN v THEN v.str # ""
    ELSE IF "list" \in DOMAIN v THEN v.list # << >>
    ELSE TRUE

(***************************************************************************)
(* Action descriptors (the wire format of context.txt).  A function name   *)
(* is the sequence of its dot-separated components: "pyautogui.click" is   *)
(* <<"pyautogui", "click">> and "" is <<"">>.  A float is [float |-> h],   *)
(* h its value in hundredths.                                              *)
(***************************************************************************)
FloatV(h) == [float |-> h]

Step(fn, params) ==
    [function |-> fn, parameters |-> params, human_readable_justification |-> StrV("why")]

ClickStep == Step(<<"click">>, [x |-> IntV(10), y |-> IntV(20)])
ClickNoYStep == Step(<<"click">>, [x |-> IntV(10)])
WriteStep == Step(<<"write">>, [text |-> StrV("hi")])
SleepStep == Step(<<"sleep">>, [secs |-> IntV(2)])
UnknownStep == Step(<<"unknown_fn">>, EmptyDict)
PrefixedClickStep == Step(<<"pyautogui", "click">>, [x |-> IntV(10), y |-> IntV(20)])
PressKeysStep == Step(<<"press">>, [keys |-> ListV(<<StrV("a"), StrV("b")>>)])
PressKeyStep == Step(<<"press">>, [key |-> StrV("enter"), presses |-> IntV(2)])
WriteStringStep == Step(<<"write">>, [string |-> StrV("hi")])
WriteMessageStep == Step(<<"write">>, [message |-> StrV("hi")])
WriteIntervalStep == Step(<<"write">>, [text |-> StrV("hi"), interval |-> FloatV(30)])
ClickNoXStep == Step(<<"click">>, [y |-> IntV(20)])
ClickTwiceStep == Step(<<"click">>, [x |-> IntV(10), y |-> IntV(20), clicks |-> IntV(2)])
TimeSleepStep == Step(<<"time", "sleep">>, [secs |-> IntV(2)])
\* a descriptor without the "function" key
NoFunctionStep == [parameters |-> EmptyDict, human_readable_justification |-> StrV("why")]

(***************************************************************************)
(* Primitives.  A primitive call is recorded as [prim, args], args the     *)
(* arguments passed, by the name of the parameter they fill.  A tool or    *)
(* dispatch operator yields the SET of its possible outcomes, one per      *)
(* behaviour of the backend (the pyautogui call returns or raises):        *)
(*   [raised, result, calls]  raised: the operator raised to its caller;   *)
(*                            result: the str it returned (its words);     *)
(*                            calls: the primitive calls it made, in order *)
(***************************************************************************)
Call(prim, args) == [prim |-> prim, args |-> args]
Returned(result, cs) == [raised |-> FALSE, result |-> result, calls |-> cs]
Raised(cs) == [raised |-> TRUE, result |-> << >>, calls |-> cs]

\* tools.py: PyAutoGUITools.click_tool
click_tool(x, y, clicks) ==
    LET cs == <<Call("click", [x |-> x, y |-> y, clicks |-> clicks])>>
    IN  {Returned(<<"Clicked", "at">>, cs), Returned(<<"Click", "failed:", "err">>, cs)}

\* tools.py: PyAutoGUITools.type_text
type_text(text, interval) ==
    LET cs == <<Call("write", [message |-> text, interval |-> interval])>>
    IN  {Returned(<<"Typed:", "text">>, cs), Returned(<<"Type", "failed:", "err">>, cs)}

\* tools.py: PyAutoGUITools.press_key
press_key(key, presses) ==
    IF "list" \in DOMAIN key
    THEN LET cs == <<Call("hotkey", [args |-> key.list])>>
         IN  {Returned(<<"Pressed", "hotkey:", "keys">>, cs),
              Returned(<<"Key", "press", "failed:", "err">>, cs)}
    ELSE LET cs == <<Call("press", [keys |-> key, presses |-> presses])>>
         IN  {Returned(<<"Pressed", "key:", "key">>, cs),
              Returned(<<"Key", "press", "failed:", "err">>, cs)}

\* tools.py: PyAutoGUITools.hotkey
hotkey(keys) ==
    LET cs == <<Call("hotkey", [args |-> keys])>>
    IN  {Returned(<<"Pressed", "hotkey:", "keys">>, cs),
         Returned(<<"Hotkey", "failed:", "err">>, cs)}

\* tools.py: PyAutoGUITools.sleep_tool (time.sleep is not guarded by a try)
sleep_tool(seconds) ==
    {Returned(<<"Slept", "for", "seconds">>, <<Call("sleep", [seconds |-> seconds])>>)}

\* tools.py: PyAutoGUITools.take_screenshot
take_screenshot ==
    LET cs == <<Call("screenshot", EmptyDict)>>
    IN  IF screen = "ok"
        THEN {Returned(<<"Screenshot", "taken:", "characters">>, cs)}
        ELSE {Returned(<<"Screenshot", "failed:", "err">>, cs)}

\* tools.py: create_pyautogui_tools, the list index of each tool, and
\* StructuredTool.invoke on it: the arguments are checked against the signature
\* of the function (a required argument that is missing raises), then it is called.
ToolInvoke(tool_index, params) ==
    CASE tool_index = 0 ->
            IF {"x", "y"} \subseteq DOMAIN params
            THEN click_tool(params["x"], params["y"], Get(params, "clicks", IntV(1)))
            ELSE {Raised(<< >>)}
      [] tool_index = 1 ->
            IF "text" \in DOMAIN params
            THEN type_text(params["text"], Get(params, "interval", FloatV(5)))
            ELSE {Raised(<< >>)}
      [] tool_index = 2 ->
            IF "key" \in DOMAIN params
            THEN press_key(params["key"], Get(params, "presses", IntV(1)))
            ELSE {Raised(<< >>)}
      [] tool_index = 3 ->
            \* hotkey(*keys) has no named argument an input dict can fill
            {Raised(<< >>)}
      [] tool_index = 4 -> sleep_tool(Get(params, "seconds", FloatV(100)))
      [] OTHER -> take_screenshot

(***************************************************************************)
(* The loop's dispatcher: OpenInterfaceNodes._execute_step                 *)
(***************************************************************************)
\* str.replace(prefix + ".", ""): every component `prefix` that a dot follows goes
RECURSIVE RemovePrefix(_, _)
RemovePrefix(fn, prefix) ==
    IF Len(fn) <= 1 THEN fn
    ELSE IF Head(fn) = prefix THEN RemovePrefix(Tail(fn), prefix)
    ELSE <<Head(fn)>> \o RemovePrefix(Tail(fn), prefix)

\* function_name.startswith(prefix + ".")
StartsWith(fn, prefix) == Len(fn) > 1 /\ Head(fn) = prefix

tool_mapping ==
    [click |-> 0, type_text |-> 1, write |-> 1, press_key |-> 2, press |-> 2,
     hotkey |-> 3, sleep |-> 4, take_screenshot |-> 5]

\* the parameter mapping of _execute_step, and the tool call it ends in
StepParams(name, parameters) ==
    CASE name \in {"write", "type_text"} ->
            IF "text" \in DOMAIN parameters
            THEN [text |-> parameters["text"],
                  interval |-> Get(parameters, "interval", FloatV(5))]
            ELSE parameters
      [] name \in {"press", "press_key"} ->
            IF "keys" \in DOMAIN parameters
            THEN [key |-> parameters["keys"],
                  presses |-> Get(parameters, "presses", IntV(1))]
            ELSE parameters
      [] name = "sleep" ->
            IF "seconds" \in DOMAIN parameters THEN [seconds |-> parameters["seconds"]]
            ELSE IF "secs" \in DOMAIN parameters THEN [seconds |-> parameters["secs"]]
            ELSE [seconds |-> IntV(1)]
      [] OTHER -> parameters

execute_step(function_name, parameters) ==
    LET fn == IF StartsWith(function_name, "pyautogui")
              THEN RemovePrefix(function_name, "pyautogui") ELSE function_name
    IN  IF ~(Len(fn) = 1 /\ fn[1] \in DOMAIN tool_mapping)
        THEN {Returned(<<"Unknown", "function:">> \o fn, << >>)}
        ELSE LET name == fn[1]
                 tool_index == tool_mapping[name]
                 outs == IF name = "hotkey" /\ "keys" \in DOMAIN parameters
                            /\ "list" \in DOMAIN parameters["keys"]
                         THEN hotkey(parameters["keys"].list)
                         ELSE ToolInvoke(tool_index, StepParams(name, parameters))
             IN  {IF o.raised THEN Returned(<<"Execution", "failed:", "err">>, o.calls)
                  ELSE o : o \in outs}

\* "failed" in result.lower(), on the words of result
ContainsFailed(result) ==
    \E i \in 1..Len(result) : result[i] \in {"failed", "failed:", "Failed", "Failed:"}

\* the entry execution_node appends for one step of the plan
ExecutionResult(step, o) ==
    [function |-> Get(step, "function", <<"">>),
     parameters |-> Get(step, "parameters", EmptyDict),
     justification |-> Get(step, "human_readable_justification", StrV("")),
     result |-> o.result,
     success |-> ~ContainsFailed(o.result)]

(***************************************************************************)
(* The control loop: the LangGraph state and the nodes of nodes.py.        *)
(* A node is given the state and returns an update (a dict of the channels *)
(* it sets); messages is the one channel with a reducer (it appends).      *)
(***************************************************************************)
DefaultMaxSteps == 10

\* graph.py: the initial_state of execute_request / stream_execution
InitialState(max_steps) ==
    [messages |-> << >>,
     step_count |-> 0,
     max_steps |-> max_steps,
     current_instructions |-> NoneVal,
     execution_results |-> << >>,
     screenshot_data |-> NoneVal,
     is_complete |-> FALSE,
     error_message |-> NoneVal,
     interrupt_requested |-> FALSE]

\* how LangGraph folds a node's update into the state
ApplyUpdate(s, u) ==
    [k \in DOMAIN s |->
        IF k \notin DOMAIN u THEN s[k]
        ELSE IF k = "messages" THEN s[k] \o u[k]
        ELSE u[k]]

\* SystemMessage / HumanMessage / AIMessage(content=...)
Message(role, content) == [role |-> role, content |-> content]

\* what a node that raised hands to the graph
NodeRaised == [raised |-> TRUE]

\* dict.get(key) is truthy
HasTruthy(d, key) == key \in DOMAIN d /\ Truthy(d[key])

\* planning_node: the updates it can return, one per behaviour of the model
\* (get_instructions_for_objective returns a plan of `plans` or raises), with the
\* primitive calls made before (tools[4] when step_count is 0)
planning_node(s, plans) ==
    LET pre == IF s.step_count = 0 THEN ToolInvoke(4, EmptyDict) ELSE {Returned(<< >>, << >>)}
    IN  UNION {
          IF o.raised
          THEN {[update |-> NodeRaised, calls |-> o.calls, planned |-> "none"]}
          ELSE {[update |-> [current_instructions |-> p,
                             messages |-> <<Message("system", <<StrV("prompt")>>),
                                            Message("human", <<StrV("request")>>)>>],
                  calls |-> o.calls, planned |-> "plan"] : p \in plans}
               \cup
               {[update |-> [error_message |-> StrV("Planning failed: err"),
                             is_complete |-> TRUE],
                 calls |-> o.calls, planned |-> "raise"]}
          : o \in pre}

\* execution_node, its first test: nothing to execute
NoInstructions(s) ==
    IF s.current_instructions = NoneVal THEN TRUE
    ELSE IF "steps" \notin DOMAIN s.current_instructions THEN TRUE
    ELSE s.current_instructions["steps"] = << >>

\* validation_node testing the budget before the done message
validation_node_budgetfirst(s) ==
    LET instructions == s.current_instructions
    IN  IF instructions = NoneVal THEN NodeRaised
        ELSE IF s.step_count >= s.max_steps
        THEN [is_complete |-> TRUE, error_message |-> StrV("Maximum steps exceeded")]
        ELSE IF HasTruthy(instructions, "done")
        THEN [is_complete |-> TRUE, messages |-> <<Message("ai", <<instructions["done"]>>)>>]
        ELSE [is_complete |-> FALSE]

\* validation_node with the budget test written > instead of >=
validation_node_gt(s) ==
    LET instructions == s.current_instructions
    IN  IF instructions = NoneVal THEN NodeRaised
        ELSE IF HasTruthy(instructions, "done")
        THEN [is_complete |-> TRUE, messages |-> <<Message("ai", <<instructions["done"]>>)>>]
        ELSE IF s.step_count > s.max_steps
        THEN [is_complete |-> TRUE, error_message |-> StrV("Maximum steps exceeded")]
        ELSE [is_complete |-> FALSE]

\* validation_node
validation_node(s) ==
    LET instructions == s.current_instructions
    IN  IF instructions = NoneVal THEN NodeRaised
        ELSE IF HasTruthy(instructions, "done")
        THEN [is_complete |-> TRUE, messages |-> <<Message("ai", <<instructions["done"]>>)>>]
        ELSE IF s.step_count >= s.max_steps
        THEN [is_complete |-> TRUE, error_message |-> StrV("Maximum steps exceeded")]
        ELSE [is_complete |-> FALSE]

\* _should_continue without its test of error_message
should_continue_noerror(s) ==
    IF s.is_complete THEN "complete"
    ELSE IF s.interrupt_requested THEN "complete"
    ELSE "continue"

\* graph.py: _should_continue, the conditional edge out of validation
should_continue(s) ==
    IF s.is_complete THEN "complete"
    ELSE IF Truthy(s.error_message) THEN "complete"
    ELSE IF s.interrupt_requested THEN "complete"
    ELSE "continue"

\* screenshot_node: what it returns for each outcome of tools[4].invoke({})
screenshot_node(o) ==
    IF o.raised THEN [error_message |-> StrV("Screenshot failed: err")]
    ELSE [screenshot_data |-> StrV(o.result)]

\* response_node that reports an error without a message
response_node_silent(s) ==
    IF Truthy(s.error_message) THEN [is_complete |-> TRUE]
    ELSE IF s.current_instructions = NoneVal THEN NodeRaised
    ELSE [messages |-> <<Message("ai", <<Get(s.current_instructions, "done",
                                             StrV("Task completed successfully"))>>)>>,
          is_complete |-> TRUE]

\* response_node
response_node(s) ==
    IF Truthy(s.error_message)
    THEN [messages |-> <<Message("ai", <<StrV("Task completed with error:"),
                                         s.error_message>>)>>,
          is_complete |-> TRUE]
    ELSE IF s.current_instructions = NoneVal THEN NodeRaised
    ELSE [messages |-> <<Message("ai", <<Get(s.current_instructions, "done",
                                             StrV("Task completed successfully"))>>)>>,
          is_complete |-> TRUE]

\* execution_node, the update it returns when the interrupt flag is seen
InterruptedUpdate ==
    [error_message |-> StrV("Execution interrupted by user"), is_complete |-> TRUE]

\* execution_node returning only the result of the last step
ExecutionUpdate_lastonly(s, results) ==
    [execution_results |-> <<results[Len(results)]>>, step_count |-> s.step_count + 1]

\* execution_node counting every plan as two rounds
ExecutionUpdate_plus2(s, results) ==
    [execution_results |-> results, step_count |-> s.step_count + 2]

\* execution_node, the update it returns after the last step of the plan
ExecutionUpdate(s, results) ==
    [execution_results |-> results, step_count |-> s.step_count + 1]

(***************************************************************************)
(* The planner (the model behind get_instructions_for_objective) answers   *)
(* with one of these plans, or raises.                                     *)
(***************************************************************************)
MaxPlanLen == 3

Done == StrV("All done")

StepCycle == <<ClickStep, NoFunctionStep, SleepStep>>

\* one descriptor of every parameter shape the dispatchers tell apart
DispatchSteps ==
    {ClickStep, ClickNoYStep, ClickNoXStep, ClickTwiceStep, WriteStep, WriteStringStep,
     WriteMessageStep, WriteIntervalStep, PressKeysStep, PressKeyStep,
     SleepStep, TimeSleepStep, PrefixedClickStep}

StepLists ==
    {[i \in 1..n |-> StepCycle[((i - 1) % Len(StepCycle)) + 1]] : n \in 1..MaxPlanLen}
    \cup {<<UnknownStep, ClickStep>>}

Plans ==
    {[steps |-> l] : l \in {sl \in StepLists : Len(sl) <= MaxPlanLen}}
    \cup {[steps |-> l, done |-> Done] : l \in {sl \in StepLists : Len(sl) <= 1}}
    \cup {[steps |-> << >>], [steps |-> << >>, done |-> Done], [done |-> Done]}

PlanKind(p) ==
    IF NoInstructions([current_instructions |-> p])
    THEN (IF HasTruthy(p, "done") THEN "empty+done" ELSE "empty")
    ELSE (IF HasTruthy(p, "done") THEN "steps+done" ELSE "steps")

(***************************************************************************)
(* The graph of graph.py::_build_graph, one run r at a time:               *)
(*   START -> planning -> execution -> validation -> (_should_continue)    *)
(*            screenshot -> planning | response -> END                     *)
(* A run is driven by execute_request (graph.invoke: thread[r] = "invoke") *)
(* or by the UI thread over stream_execution (graph.stream: the generator  *)
(* runs one node, yields its chunk and runs the next node only when the    *)
(* consumer asks for the next chunk).                                      *)
(***************************************************************************)
Driven(r) == thread[r] \in {"invoke", "streaming"}

\* the node has returned: graph.stream yields its chunk
Yield(r) ==
    thread' = IF thread[r] = "streaming" THEN [thread EXCEPT ![r] = "chunk"] ELSE thread

\* an exception leaves graph.invoke / graph.stream: the except clause of
\* execute_request / stream_execution returns (yields) the error dict
GraphRaises(r) ==
    /\ node' = [node EXCEPT ![r] = "raised"]
    /\ outcome' = [outcome EXCEPT ![r] =
                     [error_message |-> StrV("Graph execution failed: err"),
                      is_complete |-> TRUE]]
    /\ state' = state

Planning(r, plans) ==
    /\ Driven(r) /\ node[r] = "planning"
    /\ \E out \in planning_node(state[r], plans) :
         /\ calls' = [calls EXCEPT ![r] = @ \o out.calls]
         /\ planner_calls' =
              IF out.planned = "none" THEN planner_calls
              ELSE [planner_calls EXCEPT ![r] =
                      Append(@, IF out.planned = "raise" THEN "raise"
                                ELSE PlanKind(out.update.current_instructions))]
         /\ IF out.update = NodeRaised
            THEN GraphRaises(r)
            ELSE /\ state' = [state EXCEPT ![r] = ApplyUpdate(@, out.update)]
                 /\ node' = [node EXCEPT ![r] = "execution"]
                 /\ outcome' = outcome
    /\ Yield(r)
    /\ UNCHANGED <<screen, interpVars, exec_i, exec_results, dispatched, is_running, since_stop>>

\* execution_node returns at its first test
ExecutionEmpty(r) ==
    /\ Driven(r) /\ node[r] = "execution"
    /\ NoInstructions(state[r])
    /\ state' = [state EXCEPT ![r] =
                   ApplyUpdate(@, [error_message |-> StrV("No instructions to execute"),
                                   is_complete |-> TRUE])]
    /\ node' = [node EXCEPT ![r] = "validation"]
    /\ Yield(r)
    /\ UNCHANGED <<screen, interpVars, exec_i, exec_results, planner_calls, dispatched, calls,
                   outcome, is_running, since_stop>>

\* one iteration of the for loop of execution_node
ExecutionStep(r) ==
    /\ Driven(r) /\ node[r] = "execution"
    /\ ~NoInstructions(state[r])
    /\ exec_i[r] < Len(state[r].current_instructions["steps"])
    /\ IF state[r].interrupt_requested
       THEN /\ state' = [state EXCEPT ![r] = ApplyUpdate(@, InterruptedUpdate)]
            /\ node' = [node EXCEPT ![r] = "validation"]
            /\ exec_i' = [exec_i EXCEPT ![r] = 0]
            /\ exec_results' = [exec_results EXCEPT ![r] = << >>]
            /\ Yield(r)
            /\ UNCHANGED <<dispatched, calls, since_stop>>
       ELSE LET step == state[r].current_instructions["steps"][exec_i[r] + 1]
            IN  \E o \in execute_step(Get(step, "function", <<"">>),
                                      Get(step, "parameters", EmptyDict)) :
                  /\ exec_results' = [exec_results EXCEPT ![r] =
                                        Append(@, ExecutionResult(step, o))]
                  /\ exec_i' = [exec_i EXCEPT ![r] = @ + 1]
                  /\ dispatched' = [dispatched EXCEPT ![r] =
                                      Append(@, <<state[r].step_count, exec_i[r] + 1>>)]
                  /\ calls' = [calls EXCEPT ![r] = @ \o o.calls]
                  /\ since_stop' = [since_stop EXCEPT ![r] = IF @ < 0 THEN @ ELSE @ + 1]
                  /\ UNCHANGED <<state, node, thread>>
    /\ UNCHANGED <<screen, interpVars, planner_calls, outcome, is_running>>

\* the for loop of execution_node is over: it returns the results of the round
ExecutionReturn(r) ==
    /\ Driven(r) /\ node[r] = "execution"
    /\ ~NoInstructions(state[r])
    /\ exec_i[r] = Len(state[r].current_instructions["steps"])
    /\ state' = [state EXCEPT ![r] =
                   ApplyUpdate(@, ExecutionUpdate(state[r], exec_results[r]))]
    /\ node' = [node EXCEPT ![r] = "validation"]
    /\ exec_i' = [exec_i EXCEPT ![r] = 0]
    /\ exec_results' = [exec_results EXCEPT ![r] = << >>]
    /\ Yield(r)
    /\ UNCHANGED <<screen, interpVars, planner_calls, dispatched, calls, outcome, is_running,
                   since_stop>>

\* validation_node and the conditional edge _should_continue
Validation(r) ==
    /\ Driven(r) /\ node[r] = "validation"
    /\ LET u == validation_node(state[r])
       IN  IF u = NodeRaised
           THEN GraphRaises(r)
           ELSE LET s2 == ApplyUpdate(state[r], u)
                IN  /\ state' = [state EXCEPT ![r] = s2]
                    /\ node' = [node EXCEPT ![r] =
                                  IF should_continue(s2) = "complete"
                                  THEN "response" ELSE "screenshot"]
                    /\ outcome' = outcome
    /\ Yield(r)
    /\ UNCHANGED <<screen, interpVars, exec_i, exec_results, planner_calls, dispatched, calls,
                   is_running, since_stop>>

Screenshot(r) ==
    /\ Driven(r) /\ node[r] = "screenshot"
    /\ \E o \in ToolInvoke(4, EmptyDict) :
         /\ state' = [state EXCEPT ![r] = ApplyUpdate(@, screenshot_node(o))]
         /\ calls' = [calls EXCEPT ![r] = @ \o o.calls]
    /\ node' = [node EXCEPT ![r] = "planning"]
    /\ Yield(r)
    /\ UNCHANGED <<screen, interpVars, exec_i, exec_results, planner_calls, dispatched, outcome,
                   is_running, since_stop>>

\* response_node, then END: graph.invoke returns the final state
Response(r) ==
    /\ Driven(r) /\ node[r] = "response"
    /\ LET u == response_node(state[r])
       IN  IF u = NodeRaised
           THEN GraphRaises(r)
           ELSE /\ state' = [state EXCEPT ![r] = ApplyUpdate(@, u)]
                /\ node' = [node EXCEPT ![r] = "END"]
                /\ outcome' = [outcome EXCEPT ![r] = ApplyUpdate(state[r], u)]
    /\ Yield(r)
    /\ UNCHANGED <<screen, interpVars, exec_i, exec_results, planner_calls, dispatched, calls,
                   is_running, since_stop>>

\* the observer sets the shared interrupt flag of a run that is under way
SetInterruptRequested(r) ==
    /\ Driven(r) /\ node[r] \notin {"END", "raised"}
    /\ ~state[r].interrupt_requested
    /\ state' = [state EXCEPT ![r].interrupt_requested = TRUE]
    /\ UNCHANGED <<screen, interpVars, node, exec_i, exec_results, planner_calls, dispatched, calls,
                   outcome, is_running, thread, since_stop>>

(***************************************************************************)
(* simple_ui.py: the Tk thread runs _execute_request and _stop_execution   *)
(* (button callbacks); every accepted request starts a thread that runs    *)
(* _run_execution over graph.stream_execution(user_request).               *)
(* thread[r]: "none" not started, "started" at the top of _run_execution,  *)
(* "streaming" inside the generator (a node runs), "chunk" holding the     *)
(* chunk just yielded, "after" past the for loop, "finished".              *)
(***************************************************************************)
\* _execute_request: refused while is_running, else a new thread is started
UIExecute ==
    /\ IF is_running
       THEN UNCHANGED thread
       ELSE \E r \in Runs :
              /\ thread[r] = "none"
              /\ \A q \in Runs : q < r => thread[q] # "none"
              /\ thread' = [thread EXCEPT ![r] = "started"]
    /\ UNCHANGED <<screen, interpVars, loopVars, is_running, since_stop>>

\* _stop_execution
UIStop ==
    /\ IF is_running
       THEN /\ is_running' = FALSE
            /\ since_stop' = [r \in Runs |->
                                IF thread[r] \in {"streaming", "chunk"} /\ since_stop[r] < 0
                                THEN 0 ELSE since_stop[r]]
       ELSE UNCHANGED <<is_running, since_stop>>
    /\ UNCHANGED <<screen, interpVars, loopVars, thread>>

\* _run_execution, up to the first next() on the generator
ThreadStart(r) ==
    /\ thread[r] = "started"
    /\ is_running' = TRUE
    /\ thread' = [thread EXCEPT ![r] = "streaming"]
    /\ UNCHANGED <<screen, interpVars, loopVars, since_stop>>

\* _run_execution, the body of the for loop on one chunk, then the next next()
ChunkCheck(r) ==
    /\ thread[r] = "chunk"
    /\ thread' = [thread EXCEPT ![r] =
                    IF ~is_running THEN "after"
                    ELSE IF node[r] \in {"END", "raised"} THEN "after"
                    ELSE "streaming"]
    /\ UNCHANGED <<screen, interpVars, loopVars, is_running, since_stop>>

\* _run_execution, after the loop: the finally clause
ThreadFinish(r) ==
    /\ thread[r] = "after"
    /\ is_running' = FALSE
    /\ thread' = [thread EXCEPT ![r] = "finished"]
    /\ UNCHANGED <<screen, interpVars, loopVars, since_stop>>

(***************************************************************************)
(* app/interpreter.py: the Interpreter                                     *)
(***************************************************************************)
\* the names hasattr(pyautogui, name) is true of, among those the planner uses
PyAutoGuiAttrs == {"click", "write", "press", "hotkey", "sleep", "moveTo"}

\* a or b
Or(a, b) == IF Truthy(a) THEN a ELSE b

\* The calls cs are made in order; each pyautogui call returns or raises, and a
\* raise ends the sequence.  time.sleep returns.
Attempts(cs) ==
    {[raised |-> k < Len(cs), calls |-> SubSeq(cs, 1, IF k < Len(cs) THEN k + 1 ELSE k)] :
        k \in {j \in 0..Len(cs) : IF j = Len(cs) THEN TRUE ELSE cs[j + 1].prim # "sleep"}}

\* execute_function, the warm-up: pyautogui.press("command", interval=0.2); sleep(0.1)
WarmUp ==
    <<Call("press", [keys |-> StrV("command"), interval |-> FloatV(20)]),
      Call("sleep", [seconds |-> FloatV(10)])>>

\* execute_function, the name cleaning
CleanName(function_name) ==
    IF StartsWith(function_name, "pyautogui") THEN RemovePrefix(function_name, "pyautogui")
    ELSE IF StartsWith(function_name, "time") THEN RemovePrefix(function_name, "time")
    ELSE function_name

\* execute_function, after the warm-up: the primitive calls the descriptor maps to
ActionCalls(fn, parameters) ==
    LET name == fn[1]
        get(k) == Get(parameters, k, NoneVal)
    IN  IF Len(fn) = 1 /\ name = "sleep" /\ (Truthy(get("secs")) \/ Truthy(get("seconds")))
        THEN <<Call("sleep", [seconds |-> Or(get("secs"), get("seconds"))])>>
        ELSE IF ~(Len(fn) = 1 /\ name \in PyAutoGuiAttrs)
        THEN << >>
        ELSE IF name = "write" /\ DOMAIN parameters \cap {"string", "text", "message"} # {}
        THEN <<Call("write", [message |-> Or(get("string"), Or(get("text"), get("message"))),
                              interval |-> Get(parameters, "interval", FloatV(10))])>>
        ELSE IF name = "press" /\ DOMAIN parameters \cap {"keys", "key"} # {}
        THEN LET keys_to_press == Or(get("keys"), get("key"))
                 presses == Get(parameters, "presses", IntV(1))
                 interval == Get(parameters, "interval", FloatV(20))
             IN  IF "list" \in DOMAIN keys_to_press
                 THEN [i \in 1..Len(keys_to_press.list) |->
                         Call("press", [keys |-> keys_to_press.list[i],
                                        presses |-> presses, interval |-> interval])]
                 ELSE <<Call("press", [keys |-> keys_to_press,
                                       presses |-> presses, interval |-> interval])>>
        ELSE IF name = "hotkey"
        THEN IF "keys" \in DOMAIN parameters
             THEN (IF "list" \in DOMAIN parameters["keys"]
                   THEN <<Call("hotkey", [args |-> parameters["keys"].list])>>
                   ELSE <<Call("hotkey", [args |-> <<parameters["keys"]>>])>>)
             ELSE <<Call("hotkey", [args |-> parameters])>>
        ELSE IF name = "click"
        THEN IF get("x") # NoneVal /\ get("y") # NoneVal
             THEN <<Call("click", [x |-> get("x"), y |-> get("y"),
                                   clicks |-> Get(parameters, "clicks", IntV(1))])>>
             ELSE << >>
        ELSE <<Call(name, parameters)>>

\* execute_function: its possible outcomes [raised, calls]
execute_function(function_name, parameters) ==
    Attempts(WarmUp \o ActionCalls(CleanName(function_name), parameters))

\* process_command: its possible outcomes
\*   [result, put, calls, trace]
\*      result: "True", "False" or "KeyError" (raised to the caller);
\*      put: what it put on status_queue;
\*      trace: its puts and primitive calls in the order it made them, then the
\*             exception of execute_function it caught, if any
process_command(json_command) ==
    IF "function" \notin DOMAIN json_command
    THEN {[result |-> "KeyError", put |-> << >>, calls |-> << >>, trace |-> << >>]}
    ELSE {[result |-> IF o.raised THEN "False" ELSE "True",
           put |-> <<Get(json_command, "human_readable_justification", NoneVal)>>,
           calls |-> o.calls,
           trace |-> <<[event |-> "put", call |-> NoneVal]>>
                     \o [k \in 1..Len(o.calls) |-> [event |-> "call", call |-> o.calls[k]]]
                     \o (IF o.raised THEN <<[event |-> "raise", call |-> NoneVal]>>
                         ELSE << >>)] :
            o \in execute_function(json_command["function"],
                                   Get(json_command, "parameters", EmptyDict))}

\* process_commands going on with the next command whatever process_command returned
EndsLoop_never(result) == result = "KeyError"

\* process_commands: `if not success: return False` (an exception of
\* process_command ends the loop too)
EndsLoop(result) == result # "True"

\* process_commands, one iteration of its for loop
ProcessCommand ==
    /\ returned = NoneVal
    /\ cmd_i < Len(json_commands)
    /\ \E o \in process_command(json_commands[cmd_i + 1]) :
         /\ status_queue' = status_queue \o o.put
         /\ interp_calls' = interp_calls \o o.calls
         /\ interp_trace' = interp_trace \o
                [k \in 1..Len(o.trace) |->
                    [cmd |-> cmd_i + 1, event |-> o.trace[k].event, call |-> o.trace[k].call]]
         /\ IF ~EndsLoop(o.result)
            THEN cmd_i' = cmd_i + 1 /\ returned' = returned
            ELSE /\ cmd_i' = cmd_i
                 /\ returned' = IF o.result = "False" THEN [value |-> FALSE]
                                ELSE [raised |-> o.result]
    /\ UNCHANGED <<screen, loopVars, uiVars, json_commands>>

\* process_commands, after the loop
ProcessCommandsReturn ==
    /\ returned = NoneVal
    /\ cmd_i = Len(json_commands)
    /\ returned' = [value |-> TRUE]
    /\ UNCHANGED <<screen, loopVars, uiVars, json_commands, cmd_i, status_queue, interp_calls,
                   interp_trace>>

(***************************************************************************)
(* Spec: one call execute_request(user_request, max_steps) on a fresh      *)
(* graph, for every max_steps of 1..MaxStepsBound.                         *)
(***************************************************************************)
Idle == [r \in Runs |-> "none"]

\* no call of the Interpreter is under way
InterpreterIdle ==
    /\ json_commands = << >>
    /\ cmd_i = 0
    /\ status_queue = << >>
    /\ interp_calls = << >>
    /\ interp_trace = << >>
    /\ returned = NoneVal

Init ==
    /\ \E n \in 1..MaxStepsBound :
         state = [r \in Runs |-> InitialState(IF r = 1 THEN n ELSE DefaultMaxSteps)]
    /\ node = [r \in Runs |-> "planning"]
    /\ exec_i = [r \in Runs |-> 0]
    /\ exec_results = [r \in Runs |-> << >>]
    /\ planner_calls = [r \in Runs |-> << >>]
    /\ dispatched = [r \in Runs |-> << >>]
    /\ calls = [r \in Runs |-> << >>]
    /\ outcome = [r \in Runs |-> NoneVal]
    /\ is_running = FALSE
    /\ thread = [Idle EXCEPT ![1] = "invoke"]
    /\ since_stop = [r \in Runs |-> -1]
    /\ InterpreterIdle
    /\ screen \in {"ok", "broken"}

Next ==
    \/ Planning(1, Plans)
    \/ ExecutionEmpty(1)
    \/ ExecutionStep(1)
    \/ ExecutionReturn(1)
    \/ Validation(1)
    \/ Screenshot(1)
    \/ Response(1)
    \/ SetInterruptRequested(1)

Spec == Init /\ [][Next]_vars

\* the graph works on: every node returns (the planner and the primitives are
\* time-bounded), whatever the observer does
LoopStep ==
    \/ Planning(1, Plans)
    \/ ExecutionEmpty(1)
    \/ ExecutionStep(1)
    \/ ExecutionReturn(1)
    \/ Validation(1)
    \/ Screenshot(1)
    \/ Response(1)

FairSpec == Spec /\ WF_vars(LoopStep)

(***************************************************************************)
(* SpecDispatch: execute_request with a planner that answers every round   *)
(* with a plan of one descriptor of DispatchSteps (or raises), so that the *)
(* loop's dispatcher _execute_step meets every parameter shape.            *)
(***************************************************************************)
DispatchPlans == {[steps |-> <<d>>] : d \in DispatchSteps}

NextDispatch ==
    \/ Planning(1, DispatchPlans)
    \/ ExecutionEmpty(1)
    \/ ExecutionStep(1)
    \/ ExecutionReturn(1)
    \/ Validation(1)
    \/ Screenshot(1)
    \/ Response(1)

SpecDispatch == Init /\ [][NextDispatch]_vars

(***************************************************************************)
(* SpecUI: the front end.  The user presses Execute and Stop at will; the  *)
(* model behind the planner answers with a plan of UIPlans or raises, and  *)
(* declares the task done by round MaxUIRounds.                            *)
(***************************************************************************)
MaxUIRounds == 2        \* the planner declares the task done by this round

UIPlans(r) ==
    {[steps |-> <<SleepStep>>, done |-> Done]}
    \cup (IF Len(planner_calls[r]) + 1 >= MaxUIRounds THEN {}
          ELSE {[steps |-> [i \in 1..MaxPlanLen |->
                              IF i % 2 = 0 THEN UnknownStep ELSE SleepStep]]})

InitUI ==
    /\ state = [r \in Runs |-> InitialState(DefaultMaxSteps)]
    /\ node = [r \in Runs |-> "planning"]
    /\ exec_i = [r \in Runs |-> 0]
    /\ exec_results = [r \in Runs |-> << >>]
    /\ planner_calls = [r \in Runs |-> << >>]
    /\ dispatched = [r \in Runs |-> << >>]
    /\ calls = [r \in Runs |-> << >>]
    /\ outcome = [r \in Runs |-> NoneVal]
    /\ is_running = FALSE
    /\ thread = Idle
    /\ since_stop = [r \in Runs |-> -1]
    /\ InterpreterIdle
    /\ screen = "ok"

NextUI ==
    \/ UIExecute
    \/ UIStop
    \/ \E r \in Runs :
         \/ ThreadStart(r)
         \/ ChunkCheck(r)
         \/ ThreadFinish(r)
         \/ Planning(r, UIPlans(r))
         \/ ExecutionEmpty(r)
         \/ ExecutionStep(r)
         \/ ExecutionReturn(r)
         \/ Validation(r)
         \/ Screenshot(r)
         \/ Response(r)

SpecUI == InitUI /\ [][NextUI]_vars

(***************************************************************************)
(* SpecInterp: one call Interpreter.process_commands(json_commands), for   *)
(* every list of at most MaxCommands of the descriptors of Commands.       *)
(***************************************************************************)
MaxCommands == 2

Commands ==
    DispatchSteps \cup {UnknownStep, NoFunctionStep}

InitInterp ==
    /\ state = [r \in Runs |-> InitialState(DefaultMaxSteps)]
    /\ node = [r \in Runs |-> "planning"]
    /\ exec_i = [r \in Runs |-> 0]
    /\ exec_results = [r \in Runs |-> << >>]
    /\ planner_calls = [r \in Runs |-> << >>]
    /\ dispatched = [r \in Runs |-> << >>]
    /\ calls = [r \in Runs |-> << >>]
    /\ outcome = [r \in Runs |-> NoneVal]
    /\ is_running = FALSE
    /\ thread = Idle
    /\ since_stop = [r \in Runs |-> -1]
    /\ json_commands \in UNION {[1..n -> Commands] : n \in 1..MaxCommands}
    /\ cmd_i = 0
    /\ status_queue = << >>
    /\ interp_calls = << >>
    /\ interp_trace = << >>
    /\ returned = NoneVal
    /\ screen = "ok"

NextInterp == ProcessCommand \/ ProcessCommandsReturn

SpecInterp == InitInterp /\ [][NextInterp]_vars

(***************************************************************************)
(* Properties of the control loop                                          *)
(***************************************************************************)
Terminal(r) == node[r] \in {"END", "raised"}

Last(q) == q[Len(q)]

\* every planning call so far returned steps and no done message
OnlySteps(r) == \A i \in 1..Len(planner_calls[r]) : planner_calls[r][i] = "steps"

\* the message the caller of execute_request is left with: the last AIMessage of
\* the final state, or the error_message of the error dict
FinalMessage(o) ==
    IF o = NoneVal THEN << >>
    ELSE IF "messages" \in DOMAIN o
    THEN (IF o.messages # << >> /\ Last(o.messages).role = "ai"
          THEN Last(o.messages).content ELSE << >>)
    ELSE <<o.error_message>>

\* C1: a run whose planner returns steps and no done message in every round (and
\* that is not interrupted) makes at most max_steps planning calls, and when it
\* has ended it has ended in the graph's END after exactly max_steps planning
\* calls and max_steps rounds with the error "Maximum steps exceeded".
C1_MaxStepsExactRounds ==
    (OnlySteps(1) /\ ~state[1].interrupt_requested) =>
        /\ Len(planner_calls[1]) <= state[1].max_steps
        /\ Terminal(1) =>
             /\ node[1] = "END"
             /\ Len(planner_calls[1]) = state[1].max_steps
             /\ state[1].step_count = state[1].max_steps
             /\ state[1].error_message = StrV("Maximum steps exceeded")
             /\ FinalMessage(outcome[1]) =
                  <<StrV("Task completed with error:"), StrV("Maximum steps exceeded")>>

C1_Witness ==
    /\ node[1] = "END"
    /\ state[1].max_steps = 3
    /\ planner_calls[1] = <<"steps", "steps", "steps">>
    /\ ~state[1].interrupt_requested

\* C2: once is_complete or interrupt_requested is true, no step dispatches a
\* descriptor.
C2_NoDispatchOnceComplete ==
    [][(state[1].is_complete \/ state[1].interrupt_requested)
         => dispatched'[1] = dispatched[1]]_vars

\* C3: once a planning call has failed, error_message is and stays the planning
\* failure (no execution or validation step replaces it) and the run ends with it.
C3_PlanningFailureIsFinal ==
    (planner_calls[1] # << >> /\ Last(planner_calls[1]) = "raise") =>
        /\ state[1].error_message = StrV("Planning failed: err")
        /\ Terminal(1) =>
             FinalMessage(outcome[1]) =
                <<StrV("Task completed with error:"), StrV("Planning failed: err")>>

\* C4: when execution_node sees the interrupt flag after k of the n steps of the
\* plan (0 < k < n), it dispatches nothing more, the run is marked interrupted
\* and the k results of the round are in the state's execution_results.
C4_InterruptKeepsResults ==
    [][(/\ node[1] = "execution"
        /\ state[1].interrupt_requested
        /\ exec_i[1] > 0
        /\ exec_i[1] < Len(state[1].current_instructions["steps"])
        /\ node'[1] # "execution")
         => /\ dispatched'[1] = dispatched[1]
            /\ state'[1].error_message = StrV("Execution interrupted by user")
            /\ state'[1].execution_results = exec_results[1]]_vars

\* C6: every run ends, and it ends with a message: from some point on the graph
\* is at END or has raised, and the caller holds a final message.
C6_EndsWithMessage == <>[](Terminal(1) /\ FinalMessage(outcome[1]) # << >>)

C6_Witness ==
    /\ Terminal(1)
    /\ FinalMessage(outcome[1]) # << >>
    /\ Len(planner_calls[1]) = MaxStepsBound

\* C8 (loop surface): a step whose name is not in tool_mapping is recorded with
\* success = FALSE.
C8_UnknownActionFails ==
    \A i \in 1..Len(exec_results[1]) :
        exec_results[1][i].function = <<"unknown_fn">> => ~exec_results[1][i].success

\* C9: error_message set implies is_complete.
C9_ErrorImpliesComplete == Truthy(state[1].error_message) => state[1].is_complete

\* C10: while is_complete is false, step_count <= max_steps.
C10_StepCountBounded == ~state[1].is_complete => state[1].step_count <= state[1].max_steps

C10_Witness ==
    /\ ~state[1].is_complete
    /\ state[1].step_count = state[1].max_steps
    /\ node[1] = "validation"

\* C5: after Stop is pressed on a run, at most the descriptor in flight is still
\* dispatched: no run dispatches more than one descriptor after its Stop.
C5_StopHaltsDispatch == \A r \in Runs : since_stop[r] <= 1

\* p is a prefix of q
IsPrefix(p, q) == Len(p) <= Len(q) /\ SubSeq(q, 1, Len(p)) = p

\* C11: the results sequence of a run only grows: in every step the state's
\* execution_results before the step is a prefix of the one after it.
C11_ResultsOnlyGrow ==
    [][IsPrefix(state[1].execution_results, state'[1].execution_results)]_vars

\* _execute_step finds no tool for the name (tool_mapping.get gives None)
UnknownAction(function_name) ==
    LET fn == IF StartsWith(function_name, "pyautogui")
              THEN RemovePrefix(function_name, "pyautogui") ELSE function_name
    IN  ~(Len(fn) = 1 /\ fn[1] \in DOMAIN tool_mapping)

\* C12: a dispatched descriptor that fails (no function name, a name that is no
\* action, or a primitive that raised) is recorded with success = FALSE and
\* does not end the round: execution_node goes on to the next step of the plan.
C12_FailureRecordedRunGoesOn ==
    [][dispatched'[1] # dispatched[1] =>
         LET res == Last(exec_results'[1])
         IN  (UnknownAction(res.function) \/ ContainsFailed(res.result)) =>
                /\ ~res.success
                /\ node'[1] = "execution"
                /\ exec_i'[1] = exec_i[1] + 1]_vars

\* the thread of run r exists and has not left _run_execution
Active(r) == thread[r] \in {"started", "streaming", "chunk", "after"}

\* C13: at most one run executes at any time: no two execution threads are
\* alive together.
C13_AtMostOneRun == \A r \in Runs : \A q \in Runs : (Active(r) /\ Active(q)) => r = q

\* the descriptor execution_node dispatches in this step, and the primitive calls
\* the step adds to the log of the run
CurrentStep(r) == state[r].current_instructions["steps"][exec_i[r] + 1]
NewCalls(r) == SubSeq(calls'[r], Len(calls[r]) + 1, Len(calls'[r]))

PressNames == {<<"press">>, <<"press_key">>, <<"pyautogui", "press">>}

\* C15 (loop surface): a press / press_key descriptor with a list under 'keys'
\* that is dispatched without a failure makes one single-key press call per key,
\* in list order, each with the presses given (default 1), and no other call.
C15_PressListPressesEachKey ==
    [][dispatched'[1] # dispatched[1] =>
         LET step == CurrentStep(1)
             parameters == Get(step, "parameters", EmptyDict)
             new == NewCalls(1)
         IN  (/\ Get(step, "function", <<"">>) \in PressNames
              /\ "keys" \in DOMAIN parameters
              /\ "list" \in DOMAIN parameters["keys"]
              /\ Last(exec_results'[1]).success) =>
                /\ Len(new) = Len(parameters["keys"].list)
                /\ \A i \in 1..Len(new) :
                      /\ new[i].prim = "press"
                      /\ new[i].args.keys = parameters["keys"].list[i]
                      /\ new[i].args.presses = Get(parameters, "presses", IntV(1))]_vars

WriteNames == {<<"write">>, <<"type_text">>, <<"pyautogui", "write">>}

\* the text of a write descriptor: the first of 'string', 'text', 'message' given
WriteText(parameters) ==
    IF "string" \in DOMAIN parameters THEN parameters["string"]
    ELSE IF "text" \in DOMAIN parameters THEN parameters["text"]
    ELSE parameters["message"]

\* C17 (loop surface): a write / type_text descriptor with its text under
\* 'string', 'text' or 'message' makes exactly one type call, with that text and
\* with the interval given, 0.1 when none is given.
C17_WriteAliasesAndInterval ==
    [][dispatched'[1] # dispatched[1] =>
         LET step == CurrentStep(1)
             parameters == Get(step, "parameters", EmptyDict)
         IN  (/\ Get(step, "function", <<"">>) \in WriteNames
              /\ DOMAIN parameters \cap {"string", "text", "message"} # {}) =>
                NewCalls(1) =
                    <<Call("write", [message |-> WriteText(parameters),
                                     interval |-> Get(parameters, "interval", FloatV(10))])>>]_vars

\* the result res is the result of dispatching the descriptor step
ResultOf(res, step) ==
    /\ res.function = Get(step, "function", <<"">>)
    /\ res.parameters = Get(step, "parameters", EmptyDict)
    /\ res.justification = Get(step, "human_readable_justification", StrV(""))

\* C18: execution_node dispatches the descriptors of the plan in plan order, one
\* per step, each adding exactly one result for that descriptor; when the round
\* completes, the results recorded are one per step of the plan, in plan order.
C18_ResultsFollowPlan ==
    [][/\ dispatched'[1] # dispatched[1] =>
            LET k == Len(exec_results[1]) + 1
                steps == state[1].current_instructions["steps"]
            IN  /\ dispatched'[1] = Append(dispatched[1], <<state[1].step_count, k>>)
                /\ k <= Len(steps)
                /\ Len(exec_results'[1]) = k
                /\ SubSeq(exec_results'[1], 1, k - 1) = exec_results[1]
                /\ ResultOf(exec_results'[1][k], steps[k])
       /\ state'[1].step_count # state[1].step_count =>
            LET steps == state[1].current_instructions["steps"]
                results == state'[1].execution_results
            IN  /\ Len(results) = Len(steps)
                /\ Len(dispatched[1]) >= Len(steps)
                /\ \A i \in 1..Len(steps) :
                      /\ ResultOf(results[i], steps[i])
                      /\ dispatched[1][Len(dispatched[1]) - Len(steps) + i]
                            = <<state[1].step_count, i>>]_vars

C18_Witness ==
    /\ node[1] = "validation"
    /\ state[1].step_count = 2
    /\ Len(state[1].execution_results) = 3
    /\ Len(dispatched[1]) >= 4

\* one of the four reasons to respond holds in the state validation starts from
MustRespond(s) ==
    \/ HasTruthy(s.current_instructions, "done")
    \/ Truthy(s.error_message)
    \/ s.step_count >= s.max_steps
    \/ s.interrupt_requested

\* C19: the step out of validation goes to response if and only if the plan has
\* a done message, or error_message is set, or step_count >= max_steps, or the
\* run is interrupted; otherwise it goes to screenshot, and the step out of
\* screenshot goes to planning.
C19_ValidationBranches ==
    [][/\ (node[1] = "validation" /\ node'[1] # "validation") =>
            IF MustRespond(state[1]) THEN node'[1] = "response"
            ELSE node'[1] = "screenshot"
       /\ (node[1] = "screenshot" /\ node'[1] # "screenshot") => node'[1] = "planning"]_vars

\* C20: the step out of screenshot, and the planning step of a run whose
\* step_count is 0, make exactly one primitive call, the screen capture; and no
\* step other than the dispatch of a descriptor calls the sleep primitive.
C20_CaptureTakesScreenshot ==
    [][/\ (\/ node[1] = "screenshot" /\ node'[1] # "screenshot"
           \/ node[1] = "planning" /\ node'[1] # "planning" /\ state[1].step_count = 0) =>
            NewCalls(1) = <<Call("screenshot", EmptyDict)>>
       /\ dispatched'[1] = dispatched[1] =>
            \A i \in 1..Len(NewCalls(1)) : NewCalls(1)[i].prim # "sleep"]_vars

\* C21: when the screen cannot be captured at the time of the step out of
\* screenshot, that step sets error_message and still goes on to planning (the
\* failure does not raise out of the graph).
C21_CaptureFailureSetsError ==
    [][(node[1] = "screenshot" /\ node'[1] # "screenshot" /\ screen = "broken") =>
          /\ Truthy(state'[1].error_message)
          /\ node'[1] = "planning"]_vars

ProviderPrefixes == {"pyautogui", "time"}

\* the name without its provider prefix
BareName(function_name) == <<function_name[Len(function_name)]>>

\* C23 (loop surface): a descriptor named with a provider prefix
\* ('pyautogui.<action>', 'time.sleep') is dispatched exactly like the bare name
\* with the same parameters: its result and its primitive calls are among those
\* of dispatching the bare name.
C23_PrefixedNameLikeBareName ==
    [][dispatched'[1] # dispatched[1] =>
         LET step == CurrentStep(1)
             fn == Get(step, "function", <<"">>)
             parameters == Get(step, "parameters", EmptyDict)
         IN  (Len(fn) = 2 /\ fn[1] \in ProviderPrefixes) =>
                \E o \in execute_step(BareName(fn), parameters) :
                    /\ o.result = Last(exec_results'[1]).result
                    /\ o.calls = NewCalls(1)]_vars

\* the plan of the round carries a done message and no error is set
DoneNoError(s) == HasTruthy(s.current_instructions, "done") /\ ~Truthy(s.error_message)

\* C25: a done message takes precedence over the step budget: when validation
\* runs with step_count = max_steps on a plan that carries a done message and
\* no error is set, it goes to response with the done message and no error,
\* and response ends the run with the done message as the final message.
C25_DoneBeatsBudget ==
    [][/\ (/\ node[1] = "validation" /\ node'[1] # "validation"
            /\ DoneNoError(state[1])
            /\ state[1].step_count = state[1].max_steps) =>
              /\ node'[1] = "response"
              /\ state'[1].is_complete
              /\ state'[1].error_message = NoneVal
              /\ Last(state'[1].messages) =
                    Message("ai", <<state[1].current_instructions["done"]>>)
       /\ (/\ node[1] = "response" /\ node'[1] # "response"
            /\ DoneNoError(state[1])
            /\ state[1].step_count = state[1].max_steps) =>
              /\ node'[1] = "END"
              /\ state'[1].error_message = NoneVal
              /\ FinalMessage(outcome'[1]) = <<state[1].current_instructions["done"]>>]_vars

C25_Witness ==
    /\ node[1] = "END"
    /\ state[1].max_steps = 2
    /\ state[1].step_count = 2
    /\ planner_calls[1] = <<"steps", "steps+done">>
    /\ FinalMessage(outcome[1]) = <<Done>>

\* the latest planning call returned a plan whose steps are empty or missing
EmptyPlanRound(r) ==
    /\ planner_calls[r] # << >>
    /\ Last(planner_calls[r]) \in {"empty", "empty+done"}

\* C26: a plan whose steps are empty or missing ends the run in its round with
\* the error "No instructions to execute", with no dispatch in the round and
\* step_count unchanged, whether or not the plan carries a done message.
C26_EmptyPlanIsError ==
    EmptyPlanRound(1) =>
        /\ node[1] \in {"execution", "validation", "response", "END"}
        /\ state[1].step_count = Len(planner_calls[1]) - 1
        /\ \A j \in 1..Len(dispatched[1]) : dispatched[1][j][1] # state[1].step_count
        /\ node[1] # "execution" =>
              state[1].error_message = StrV("No instructions to execute")
        /\ node[1] = "END" =>
              FinalMessage(outcome[1]) =
                 <<StrV("Task completed with error:"), StrV("No instructions to execute")>>

C26_Witness ==
    /\ node[1] = "END"
    /\ planner_calls[1] = <<"steps", "empty+done">>
    /\ dispatched[1] # << >>

\* Stop was pressed while run r was under way
StopRequested(r) == since_stop[r] >= 0

\* C27: once Stop has been requested for a run, the run starts no further node
\* of the graph: when its thread holds a chunk (no node is in flight) it leaves
\* the loop and does not ask the generator for the next node, whatever else
\* happens in between (a new run started included).
C27_StoppedRunStartsNoStep ==
    [][\A r \in Runs :
         (StopRequested(r) /\ thread[r] = "chunk") => thread'[r] \in {"chunk", "after"}]_vars

(***************************************************************************)
(* Properties of the dispatcher                                            *)
(***************************************************************************)
\* C7: dispatching a descriptor never raises to the caller: process_commands
\* never ends by raising.
C7_DispatchNeverRaises == returned # NoneVal => "raised" \notin DOMAIN returned

\* the commands process_commands has handed to process_command so far
DispatchAttempts == cmd_i + (IF returned # NoneVal /\ returned # [value |-> TRUE] THEN 1 ELSE 0)

\* the positions of the trace that hold the event e of command c
Events(c, e) ==
    {k \in 1..Len(interp_trace) : interp_trace[k].cmd = c /\ interp_trace[k].event = e}

\* C14: every descriptor handed to process_command has exactly one justification
\* message put on the status queue, put before every primitive call made for
\* that descriptor; the messages put are as many as the dispatch attempts.
C14_OneMessageBeforeDispatch ==
    /\ \A c \in 1..DispatchAttempts :
          /\ Cardinality(Events(c, "put")) = 1
          /\ \A p \in Events(c, "put") : \A k \in Events(c, "call") : p < k
    /\ Len(status_queue) = DispatchAttempts
\* the primitive calls process_command made for command c after the warm-up
ActionCallsOf(c) ==
    LET ks == Events(c, "call")
        RECURSIVE Collect(_)
        Collect(k) ==
            IF k > Len(interp_trace) THEN << >>
            ELSE (IF k \in ks THEN <<interp_trace[k].call>> ELSE << >>) \o Collect(k + 1)
        all == Collect(1)
    IN  SubSeq(all, Len(WarmUp) + 1, Len(all))

\* command c is a click descriptor
IsClick(c) ==
    /\ "function" \in DOMAIN json_commands[c]
    /\ CleanName(json_commands[c]["function"]) = <<"click">>

\* C16 (Interpreter surface): a click descriptor without x or without y gives a
\* failed result (process_command returns False) and makes no click call; with
\* both, a click that succeeded made the one call click(x, y, clicks), clicks
\* defaulting to 1.
C16_ClickNeedsBothCoordinates ==
    \A c \in 1..DispatchAttempts :
        IsClick(c) =>
            LET parameters == Get(json_commands[c], "parameters", EmptyDict)
            IN  IF {"x", "y"} \subseteq DOMAIN parameters
                THEN c <= cmd_i =>
                        ActionCallsOf(c) =
                            <<Call("click", [x |-> parameters["x"], y |-> parameters["y"],
                                             clicks |-> Get(parameters, "clicks", IntV(1))])>>
                ELSE /\ c > cmd_i
                     /\ \A k \in Events(c, "call") : interp_trace[k].call.prim # "click"
\* the primitive calls execute_function is to make for command c after the warm-up
OwnCalls(c) ==
    IF "function" \notin DOMAIN json_commands[c] THEN << >>
    ELSE ActionCalls(CleanName(json_commands[c]["function"]),
                     Get(json_commands[c], "parameters", EmptyDict))

\* C22: a warm-up that fails is not fatal to the dispatch: every descriptor that
\* maps to a primitive has that primitive invoked, also when the warm-up key
\* press raised.
C22_WarmUpFailureNotFatal ==
    \A c \in 1..DispatchAttempts : OwnCalls(c) # << >> => ActionCallsOf(c) # << >>
\* the commands whose execute_function raised
RaisedCommands == {c \in 1..Len(json_commands) : Events(c, "raise") # {}}

\* C24: process_commands runs the commands in list order and stops at the first
\* whose execution raises: it then has returned False, nothing was dispatched
\* and no message was put for a later command; it returns True if and only if
\* every command of the list was executed and none raised.
C24_FailFast ==
    /\ \A k \in 1..Len(interp_trace) : \A l \in k..Len(interp_trace) :
          interp_trace[k].cmd <= interp_trace[l].cmd
    /\ \A c \in RaisedCommands :
          /\ returned = [value |-> FALSE]
          /\ \A k \in 1..Len(interp_trace) : interp_trace[k].cmd <= c
          /\ Len(status_queue) = c
    /\ returned = [value |-> FALSE] => RaisedCommands # {}
    /\ returned = [value |-> TRUE] <=>
          /\ returned # NoneVal
          /\ RaisedCommands = {}
          /\ \A c \in 1..Len(json_commands) : Events(c, "put") # {}

C24_Witness ==
    /\ returned = [value |-> FALSE]
    /\ Len(json_commands) >= 2
    /\ RaisedCommands = {1}
    /\ interp_calls # << >>
====
